---- MODULE Spec2Model ----
(***************************************************************************)
(* Model of the #[derive(ApplyOverrides)] rule compiler                     *)
(* (libs/override_key_derive) and of the operation it generates             *)
(* (libs/override_key_core::ApplyOverrides::apply_overrides).               *)
(*                                                                          *)
(* Strings are sequences of one-character strings, so that the key          *)
(* synthesis (underscore replacement, prefixing) is computed, not assumed.  *)
(* Option<T> is a sequence of length 0 (None) or 1 (Some(x)).               *)
(***************************************************************************)
EXTENDS Integers, Sequences, FiniteSets, TLC

VARIABLES
    input,          \* the DeriveInput handed to generate_impl
    pc,             \* position inside generate_impl / the generated operation
    infer_keys,     \* parse_struct_level_config: infer_keys accumulator
    prefix,         \* parse_struct_level_config: prefix accumulator (Option<String>)
    errors,         \* the shared Vec<Error> accumulator
    attr_i,         \* parse_struct_level_config: number of struct attributes walked
    field_i,        \* generate_impl: number of fields handed to process_field
    generated,      \* generate_impl: Vec of per-field snippets
    output,         \* what derive_apply_overrides hands back to the compiler
    self_values,    \* runtime: the field values of the struct instance (&self)
    rejected,       \* runtime: the keys the external builder's set_override rejects
    builder,        \* runtime: the set_override calls the builder has accepted, in order
    calls,          \* runtime: every set_override invocation made, in order
    snippet_i,      \* runtime: number of generated snippets already executed
    ret,            \* runtime: the Result returned by apply_overrides
    given,          \* runtime: the builder the caller passed to apply_overrides
    first,          \* runtime: what an earlier invocation on the same instance did
    other,          \* a second invocation of generate_impl, on another struct
    outcome,        \* get_all: the Result of each of the four joined fetches
    finished,       \* get_all: the fetches in the order they completed
    ga_ret          \* get_all: the Result get_all returned

vars == <<input, pc, infer_keys, prefix, errors, attr_i, field_i, generated,
          output, self_values, rejected, builder, calls, snippet_i, ret,
          given, first, other, outcome, finished, ga_ret>>

compile_vars == <<input, infer_keys, prefix, errors, attr_i, field_i, generated, output>>
run_vars == <<self_values, rejected, builder, calls, snippet_i, ret, given, first>>
\* the state of the second invocation of generate_impl
two_vars == <<other>>
\* the state of infatica::get_all
get_all_vars == <<outcome, finished, ga_ret>>

(***************************************************************************)
(* Option and string helpers                                                *)
(***************************************************************************)
None == <<>>
Some(x) == <<x>>
IsSome(o) == Len(o) = 1
Unwrap(o) == o[1]

\* The elements of a sequence
Range(q) == {q[k] : k \in 1..Len(q)}

\* Option::or
OptionOr(a, b) == IF IsSome(a) THEN a ELSE b

\* str::replace('_', ".") on a string held as a sequence of characters
ReplaceUnderscores(s) == [i \in 1..Len(s) |-> IF s[i] = "_" THEN "." ELSE s[i]]

(***************************************************************************)
(* Diagnostics (syn::Error): the syntax node they are anchored to and the   *)
(* message                                                                  *)
(***************************************************************************)
MkError(span, msg) == [span |-> span, msg |-> msg]

\* utils.rs push_error: append to the accumulator
PushError(errs, span, msg) == Append(errs, MkError(span, msg))

(***************************************************************************)
(* Attribute syntax.  An attribute is                                       *)
(*   [path, meta, value, tokens, span]                                      *)
(* meta is "Path" (#[name]), "NameValue" (#[name = value]) or "List"        *)
(* (#[name(tokens)]).  value is Some(string) for a string literal and None  *)
(* for any other right-hand side.  A token of a list is [path, value]:      *)
(* value is None when the token is a bare path, Some(Some(s)) for           *)
(* `= "<s>"`, Some(None) for `= <non-string>`; path "strlit" stands for a   *)
(* token that is a string literal and path "intlit" for another literal.    *)
(***************************************************************************)
NoValue == None
StrValue(s) == Some(Some(s))
NonStrValue == Some(None)

Tok(path, value) == [path |-> path, value |-> value]

IsPathToken(t) == t.path \notin {"strlit", "intlit"}

\* The syntax node a diagnostic is anchored to: the attribute `a` itself
\* (t = 0), its t-th token, or its right-hand side.
Span(at, a, t) == [at |-> at, i |-> a.span.i, j |-> a.span.j, t |-> t]

(***************************************************************************)
(* struct_config.rs: parse_struct_level_config                              *)
(***************************************************************************)
\* The closure handed to attr.parse_nested_meta, applied to token t of
\* attribute a, followed by what syn's token walk does after the closure
\* returns: acc is [infer_keys, prefix, err]; the walk stops at the first Err.
StructMetaLogic(acc, a, t) ==
    LET tok == a.tokens[t] IN
    IF ~IsPathToken(tok)
    THEN [acc EXCEPT !.err = Some(MkError(Span("token", a, t), "expected path"))]
    ELSE IF tok.path = "infer_keys"
    THEN IF tok.value = NoValue
         THEN [acc EXCEPT !.infer_keys = TRUE]
         ELSE [acc EXCEPT !.infer_keys = TRUE,
                          !.err = Some(MkError(Span("token", a, t), "expected ,"))]
    ELSE IF tok.path = "prefix"
    THEN IF tok.value \notin {NoValue, NonStrValue}
         THEN [acc EXCEPT !.prefix = Some(Unwrap(Unwrap(tok.value)))]
         ELSE [acc EXCEPT !.err = Some(MkError(Span("token", a, t),
                                               "expected string literal"))]
    ELSE [acc EXCEPT !.err = Some(MkError(Span("token", a, t),
                                  "expected infer_keys or prefix = <string>"))]

RECURSIVE StructNestedMeta(_, _, _)
StructNestedMeta(acc, a, t) ==
    IF t > Len(a.tokens) \/ IsSome(acc.err)
    THEN acc
    ELSE StructNestedMeta(StructMetaLogic(acc, a, t), a, t + 1)

\* attr.parse_nested_meta(...) on one struct attribute: only the list form
\* has arguments to walk
StructParseNestedMeta(acc, a) ==
    IF a.meta = "List"
    THEN StructNestedMeta(acc, a, 1)
    ELSE [acc EXCEPT !.err = Some(MkError(Span("attr", a, 0),
                                  "expected attribute arguments in parentheses"))]

\* One iteration of `for attr in &input.attrs`: st is
\* [infer_keys, prefix, errors]
StructAttrStep(st, a) ==
    IF a.path # "apply_overrides"
    THEN st
    ELSE LET r == StructParseNestedMeta(
                      [infer_keys |-> st.infer_keys, prefix |-> st.prefix, err |-> None], a)
         IN [infer_keys |-> r.infer_keys,
             prefix |-> r.prefix,
             errors |-> IF IsSome(r.err) THEN Append(st.errors, Unwrap(r.err))
                        ELSE st.errors]

(***************************************************************************)
(* types.rs                                                                 *)
(***************************************************************************)
\* FieldOverrideMeta
MetaExplicit(lit) == [tag |-> "Explicit", lit |-> lit, prefix |-> None]
MetaInfer(p) == [tag |-> "Infer", lit |-> <<>>, prefix |-> p]
MetaInvalid == [tag |-> "Invalid", lit |-> <<>>, prefix |-> None]
MetaNone == [tag |-> "None", lit |-> <<>>, prefix |-> None]

\* KeyStrategy
StrategyExplicit(lit) == [tag |-> "Explicit", lit |-> lit, prefix |-> None]
StrategyInferred(p) == [tag |-> "Inferred", lit |-> <<>>, prefix |-> p]

(***************************************************************************)
(* field_parser/explicit.rs: parse_field_explicit                           *)
(* Returns [meta, errors].                                                  *)
(***************************************************************************)
ParseFieldExplicit(a, errs) ==
    IF a.path # "override_key"
    THEN [meta |-> MetaInvalid,
          errors |-> PushError(errs, Span("path", a, 0),
                               "expected override_key identifier before =")]
    ELSE IF IsSome(a.value)
    THEN [meta |-> MetaExplicit(Unwrap(a.value)), errors |-> errs]
    ELSE [meta |-> MetaInvalid,
          errors |-> PushError(errs, Span("value", a, 0), "expected string literal")]

(***************************************************************************)
(* field_parser/infer.rs: parse_field_infer_list                            *)
(***************************************************************************)
\* The closure handed to attr.parse_nested_meta and syn's step after it:
\* acc is [infer, prefix, err]
FieldMetaLogic(acc, a, t) ==
    LET tok == a.tokens[t] IN
    IF ~IsPathToken(tok)
    THEN [acc EXCEPT !.err = Some("expected path")]
    ELSE IF tok.path = "infer"
    THEN IF tok.value = NoValue
         THEN [acc EXCEPT !.infer = TRUE]
         ELSE [acc EXCEPT !.infer = TRUE, !.err = Some("expected ,")]
    ELSE IF tok.path = "prefix"
    THEN IF tok.value \notin {NoValue, NonStrValue}
         THEN [acc EXCEPT !.prefix = Some(Unwrap(Unwrap(tok.value)))]
         ELSE [acc EXCEPT !.err = Some("expected string literal")]
    ELSE [acc EXCEPT !.err = Some("unexpected token in #[override_key(...)]")]

RECURSIVE FieldNestedMeta(_, _, _)
FieldNestedMeta(acc, a, t) ==
    IF t > Len(a.tokens) \/ IsSome(acc.err)
    THEN acc
    ELSE FieldNestedMeta(FieldMetaLogic(acc, a, t), a, t + 1)

\* parse_field_infer_list without the `if !infer` test: a list without the
\* flag is taken as an inference request
ParseFieldInferListFlagOptional(a, errs) ==
    LET res == FieldNestedMeta([infer |-> FALSE, prefix |-> None, err |-> None], a, 1)
        errs1 == IF IsSome(res.err)
                 THEN PushError(errs, Span("attr", a, 0),
                                "invalid #[override_key(...)] syntax: " \o Unwrap(res.err))
                 ELSE errs
    IN [meta |-> MetaInfer(res.prefix), errors |-> errs1]

ParseFieldInferList(a, errs) ==
    LET res == FieldNestedMeta([infer |-> FALSE, prefix |-> None, err |-> None], a, 1)
        errs1 == IF IsSome(res.err)
                 THEN PushError(errs, Span("attr", a, 0),
                                "invalid #[override_key(...)] syntax: " \o Unwrap(res.err))
                 ELSE errs
    IN IF ~res.infer
       THEN [meta |-> MetaInvalid,
             errors |-> PushError(errs1, Span("attr", a, 0), "missing infer keyword")]
       ELSE [meta |-> MetaInfer(res.prefix), errors |-> errs1]

(***************************************************************************)
(* field_parser/mod.rs: parse_field_override_meta                           *)
(* attr is Option<attribute>; returns [meta, errors].                       *)
(***************************************************************************)
\* list.tokens.to_string() starts with a double quote
StartsWithQuote(a) == Len(a.tokens) > 0 /\ a.tokens[1].path = "strlit"

\* parse_field_override_meta without the test for a leading string literal:
\* every parenthesized form goes to the token walk
ParseFieldOverrideMetaNoQuoteCheck(attr, errs) ==
    IF ~IsSome(attr)
    THEN [meta |-> MetaNone, errors |-> errs]
    ELSE LET a == Unwrap(attr) IN
         CASE a.meta = "NameValue" -> ParseFieldExplicit(a, errs)
           [] a.meta = "List" -> ParseFieldInferList(a, errs)
           [] a.meta = "Path" ->
                [meta |-> MetaInvalid,
                 errors |-> PushError(errs, Span("attr", a, 0), "missing form")]

ParseFieldOverrideMeta(attr, errs) ==
    IF ~IsSome(attr)
    THEN [meta |-> MetaNone, errors |-> errs]
    ELSE LET a == Unwrap(attr) IN
         CASE a.meta = "NameValue" -> ParseFieldExplicit(a, errs)
           [] a.meta = "List" ->
                IF StartsWithQuote(a)
                THEN [meta |-> MetaInvalid,
                      errors |-> PushError(errs, Span("attr", a, 0),
                                           "invalid #[override_key(<string>)] form")]
                ELSE ParseFieldInferList(a, errs)
           [] a.meta = "Path" ->
                [meta |-> MetaInvalid,
                 errors |-> PushError(errs, Span("attr", a, 0), "missing form")]

(***************************************************************************)
(* field_parser/utils.rs                                                    *)
(***************************************************************************)
\* merge_with_struct_defaults with the struct prefix taking precedence
MergeStructPrefixFirst(field_meta, struct_infer, struct_prefix) ==
    CASE field_meta.tag = "Explicit" -> Some(StrategyExplicit(field_meta.lit))
      [] field_meta.tag = "Infer" ->
            Some(StrategyInferred(OptionOr(struct_prefix, field_meta.prefix)))
      [] field_meta.tag = "None" /\ struct_infer -> Some(StrategyInferred(struct_prefix))
      [] OTHER -> None

\* merge_with_struct_defaults treating an invalid annotation as no annotation
MergeInvalidAsAbsent(field_meta, struct_infer, struct_prefix) ==
    CASE field_meta.tag = "Explicit" -> Some(StrategyExplicit(field_meta.lit))
      [] field_meta.tag = "Infer" ->
            Some(StrategyInferred(OptionOr(field_meta.prefix, struct_prefix)))
      [] field_meta.tag \in {"None", "Invalid"} /\ struct_infer ->
            Some(StrategyInferred(struct_prefix))
      [] OTHER -> None

\* merge_with_struct_defaults inferring for every unannotated field, whether
\* or not the struct asked for inference
MergeAlwaysInferring(field_meta, struct_infer, struct_prefix) ==
    CASE field_meta.tag = "Explicit" -> Some(StrategyExplicit(field_meta.lit))
      [] field_meta.tag = "Infer" ->
            Some(StrategyInferred(OptionOr(field_meta.prefix, struct_prefix)))
      [] field_meta.tag = "None" -> Some(StrategyInferred(struct_prefix))
      [] OTHER -> None

\* merge_with_struct_defaults: Option<KeyStrategy>
MergeWithStructDefaults(field_meta, struct_infer, struct_prefix) ==
    CASE field_meta.tag = "Explicit" -> Some(StrategyExplicit(field_meta.lit))
      [] field_meta.tag = "Infer" ->
            Some(StrategyInferred(OptionOr(field_meta.prefix, struct_prefix)))
      [] field_meta.tag = "None" /\ struct_infer -> Some(StrategyInferred(struct_prefix))
      [] OTHER -> None

\* make_key_literal that also rewrites the underscores of an explicit key
MakeKeyLiteralNormalizing(ident, strategy) ==
    IF strategy.tag = "Explicit"
    THEN ReplaceUnderscores(strategy.lit)
    ELSE LET key == ReplaceUnderscores(ident) IN
         IF IsSome(strategy.prefix) /\ Unwrap(strategy.prefix) # <<>>
         THEN Unwrap(strategy.prefix) \o <<".">> \o key
         ELSE key

\* make_key_literal without the `!pre.is_empty()` test
MakeKeyLiteralNoEmptyCheck(ident, strategy) ==
    IF strategy.tag = "Explicit"
    THEN strategy.lit
    ELSE LET key == ReplaceUnderscores(ident) IN
         IF IsSome(strategy.prefix)
         THEN Unwrap(strategy.prefix) \o <<".">> \o key
         ELSE key

\* make_key_literal
MakeKeyLiteral(ident, strategy) ==
    IF strategy.tag = "Explicit"
    THEN strategy.lit
    ELSE LET key == ReplaceUnderscores(ident) IN
         IF IsSome(strategy.prefix) /\ Unwrap(strategy.prefix) # <<>>
         THEN Unwrap(strategy.prefix) \o <<".">> \o key
         ELSE key

\* is_option_type: a type is [segment, angle, arg], the last segment of its
\* path, whether that segment has angle-bracketed arguments, and the argument
IsOptionType(ty) == ty.segment = "Option" /\ ty.angle

\* build_override_snippet that never emits the `if let Some` guard
BuildOverrideSnippetUnguarded(ident, ty, key) ==
    [ident |-> ident, key |-> key, guarded |-> FALSE]

\* build_override_snippet: the generated statement, as data.  guarded is the
\* `if let Some(v) = &self.<ident>` wrapper.
BuildOverrideSnippet(ident, ty, key) ==
    [ident |-> ident, key |-> key, guarded |-> IsOptionType(ty)]

(***************************************************************************)
(* field_parser/mod.rs: process_field                                       *)
(* Returns [code, errors], code being Option<snippet>.                      *)
(***************************************************************************)
\* field.attrs.iter().find(|a| a.path().is_ident("override_key"))
RECURSIVE FindOverrideKey(_, _)
FindOverrideKey(attrs, k) ==
    IF k > Len(attrs) THEN None
    ELSE IF attrs[k].path = "override_key" THEN Some(attrs[k])
    ELSE FindOverrideKey(attrs, k + 1)

\* The accumulator after parsing every override_key attribute from the k-th on
RECURSIVE ParseEveryOverrideKey(_, _, _)
ParseEveryOverrideKey(attrs, k, errs) ==
    IF k > Len(attrs) THEN errs
    ELSE IF attrs[k].path = "override_key"
    THEN ParseEveryOverrideKey(attrs, k + 1,
                               ParseFieldOverrideMeta(Some(attrs[k]), errs).errors)
    ELSE ParseEveryOverrideKey(attrs, k + 1, errs)

\* process_field parsing every override_key attribute of the field, not only
\* the first, and refusing the field when any of them is malformed
ProcessFieldEveryAnnotation(field, struct_infer, struct_prefix, errs) ==
    LET attr == FindOverrideKey(field.attrs, 1)
        parsed == ParseFieldOverrideMeta(attr, errs)
        all == ParseEveryOverrideKey(field.attrs, 1, errs)
        strategy == MergeWithStructDefaults(parsed.meta, struct_infer, struct_prefix)
    IN IF ~IsSome(strategy) \/ all # errs
       THEN [code |-> None, errors |-> all]
       ELSE [code |-> Some(BuildOverrideSnippet(field.ident, field.ty,
                                MakeKeyLiteral(field.ident, Unwrap(strategy)))),
             errors |-> all]

\* process_field giving up on a field once the accumulator holds a
\* diagnostic of an earlier field or of the struct
ProcessFieldGivingUpAfterErrors(field, struct_infer, struct_prefix, errs) ==
    LET attr == FindOverrideKey(field.attrs, 1)
        parsed == ParseFieldOverrideMeta(attr, errs)
        strategy == MergeWithStructDefaults(parsed.meta, struct_infer, struct_prefix)
    IN IF ~IsSome(strategy) \/ errs # <<>>
       THEN [code |-> None, errors |-> parsed.errors]
       ELSE [code |-> Some(BuildOverrideSnippet(field.ident, field.ty,
                                MakeKeyLiteral(field.ident, Unwrap(strategy)))),
             errors |-> parsed.errors]

ProcessField(field, struct_infer, struct_prefix, errs) ==
    LET attr == FindOverrideKey(field.attrs, 1)
        parsed == ParseFieldOverrideMeta(attr, errs)
        strategy == MergeWithStructDefaults(parsed.meta, struct_infer, struct_prefix)
    IN IF ~IsSome(strategy)
       THEN [code |-> None, errors |-> parsed.errors]
       ELSE [code |-> Some(BuildOverrideSnippet(field.ident, field.ty,
                                MakeKeyLiteral(field.ident, Unwrap(strategy)))),
             errors |-> parsed.errors]

\* parse_fields that takes the fields of any struct
ParseFieldsAnyStruct(inp) ==
    IF inp.data = "Struct"
    THEN [ok |-> TRUE, fields |-> inp.fields, err |-> None]
    ELSE [ok |-> FALSE, fields |-> <<>>,
          err |-> Some([span |-> [at |-> "ident", i |-> 0, j |-> 0, t |-> 0],
                        msg |-> "ApplyOverrides can only be used on structs"])]

\* parse_fields: Ok(fields) only for a struct with named fields
ParseFields(inp) ==
    IF inp.data = "Struct"
    THEN IF inp.fields_kind = "Named"
         THEN [ok |-> TRUE, fields |-> inp.fields, err |-> None]
         ELSE [ok |-> FALSE, fields |-> <<>>,
               err |-> Some([span |-> [at |-> "fields", i |-> 0, j |-> 0, t |-> 0],
                             msg |-> "ApplyOverrides requires a struct with named fields"])]
    ELSE [ok |-> FALSE, fields |-> <<>>,
          err |-> Some([span |-> [at |-> "ident", i |-> 0, j |-> 0, t |-> 0],
                        msg |-> "ApplyOverrides can only be used on structs"])]

(***************************************************************************)
(* Inputs: declarations the derive macro can be applied to                  *)
(***************************************************************************)
\* Largest number of fields of a declaration
MaxFields == 2

\* Attribute constructors (span is stamped by Stamp below)
NoSpan == [i |-> 0, j |-> 0]
AttrList(path, tokens) ==
    [path |-> path, meta |-> "List", value |-> None, tokens |-> tokens, span |-> NoSpan]
AttrPath(path) ==
    [path |-> path, meta |-> "Path", value |-> None, tokens |-> <<>>, span |-> NoSpan]
AttrNameValue(path, value) ==
    [path |-> path, meta |-> "NameValue", value |-> value, tokens |-> <<>>, span |-> NoSpan]

\* Types: the last path segment, whether it has <...> arguments, the argument
TyString == [segment |-> "String", angle |-> FALSE, arg |-> "-"]
TyVecString == [segment |-> "Vec", angle |-> TRUE, arg |-> "String"]
TyOption == [segment |-> "Option", angle |-> TRUE, arg |-> "String"]
TyOptionOption == [segment |-> "Option", angle |-> TRUE, arg |-> "Option<String>"]

\* Position i of the declaration for the attributes attrs
StampAttrs(attrs, i) ==
    [k \in 1..Len(attrs) |-> [attrs[k] EXCEPT !.span = [i |-> i, j |-> k]]]

\* A field from its (type, attributes) variant v, its identifier and position
MkField(ident, v, i) == [ident |-> ident, ty |-> v.ty, attrs |-> StampAttrs(v.attrs, i)]

\* The sequences of length 0..n of pairwise distinct elements of S
RECURSIVE DistinctSeqs(_, _)
DistinctSeqs(S, n) ==
    IF n = 0 THEN {<<>>}
    ELSE LET shorter == DistinctSeqs(S, n - 1) IN
         shorter \cup {Append(q, x) : <<q, x>> \in
                          {<<q, x>> \in shorter \X S :
                              Len(q) = n - 1 /\ \A k \in 1..Len(q) : q[k] # x}}

\* Declarations: shapes from Shps, struct attributes from Blocks, up to n
\* fields with pairwise distinct identifiers from Idents and variants from
\* Variants
Declarations(Shps, Blocks, Idents, Variants, n) ==
    {[data |-> sh.data, fields_kind |-> sh.fields_kind,
      attrs |-> StampAttrs(b, 0),
      fields |-> [i \in 1..Len(ids) |-> MkField(ids[i], vs[i], i)]] :
        <<sh, b, ids, vs>> \in
            {<<sh, b, ids, vs>> \in
                 Shps \X Blocks \X DistinctSeqs(Idents, n)
                      \X UNION {[1..m -> Variants] : m \in 0..n} :
                 Len(ids) = Len(vs)}}

Shapes ==
    {[data |-> "Struct", fields_kind |-> "Named"],
     [data |-> "Struct", fields_kind |-> "Unnamed"],
     [data |-> "Struct", fields_kind |-> "Unit"],
     [data |-> "Enum", fields_kind |-> "Unit"],
     [data |-> "Union", fields_kind |-> "Named"]}

NamedStruct == [data |-> "Struct", fields_kind |-> "Named"]

\* Struct-level attribute lists of the orchestrator's inputs
OrchBlocks ==
    {<<>>,
     <<AttrList("apply_overrides",
                <<Tok("infer_keys", NoValue), Tok("prefix", StrValue(<<"p">>))>>)>>,
     <<AttrList("apply_overrides", <<Tok("bogus", NoValue)>>)>>,
     <<AttrPath("doc"), AttrList("apply_overrides", <<Tok("infer_keys", NoValue)>>)>>,
     <<AttrList("apply_overrides", <<Tok("infer_keys", NoValue), Tok("bogus", NoValue)>>)>>,
     <<AttrPath("apply_overrides")>>}

OrchIdents == {<<"a">>, <<"a", "_", "b">>, <<"_", "c">>}

\* (type, attributes) variants of the orchestrator's fields
OrchVariants ==
    {[ty |-> TyOption, attrs |-> <<>>],
     [ty |-> TyString, attrs |-> <<AttrNameValue("override_key", Some(<<"k", "_", "x">>))>>],
     [ty |-> TyOption,
      attrs |-> <<AttrList("override_key",
                           <<Tok("infer", NoValue), Tok("prefix", StrValue(<<"q">>))>>)>>],
     [ty |-> TyString, attrs |-> <<AttrPath("override_key")>>],
     [ty |-> TyOption,
      attrs |-> <<AttrList("override_key", <<Tok("prefix", StrValue(<<"q">>))>>)>>],
     [ty |-> TyString,
      attrs |-> <<AttrNameValue("override_key", Some(<<"k">>)), AttrPath("override_key")>>],
     [ty |-> TyOption,
      attrs |-> <<AttrPath("doc"), AttrList("override_key", <<Tok("infer", NoValue)>>)>>],
     [ty |-> TyString,
      attrs |-> <<AttrList("override_key", <<Tok("infer", NoValue), Tok("bogus", NoValue)>>)>>]}

OrchInputs == Declarations(Shapes, OrchBlocks, OrchIdents, OrchVariants, MaxFields)

(***************************************************************************)
(* builder_gen.rs: generate_impl, and lib.rs: derive_apply_overrides        *)
(***************************************************************************)
NoOutput == [kind |-> "none", errors |-> <<>>, body |-> <<>>]
NoResult == [tag |-> "none", key |-> <<>>, builder |-> <<>>]
FreshBuilder == <<>>
\* no second invocation of generate_impl is under way
NoInvocation == [pc |-> "absent"]
\* get_all has not been called
NoOutcomes == <<>>
NoGetAllResult == [tag |-> "none", errors |-> <<>>, results |-> <<>>]

\* pc: "parsing"  - inside parse_struct_level_config / before parse_fields
\*     "merging"  - inside `for field in fields`
\*     "deciding" - at `if !errors.is_empty()`
\*     "done"     - the token stream has been returned to the compiler
InitWith(Inputs) ==
    /\ input \in Inputs
    /\ pc = "parsing"
    /\ infer_keys = FALSE
    /\ prefix = None
    /\ errors = <<>>
    /\ attr_i = 0
    /\ field_i = 0
    /\ generated = <<>>
    /\ output = NoOutput
    /\ self_values = <<>>
    /\ rejected = {}
    /\ builder = <<>>
    /\ calls = <<>>
    /\ snippet_i = 0
    /\ ret = NoResult
    /\ given = FreshBuilder
    /\ first = None
    /\ other = NoInvocation
    /\ outcome = NoOutcomes
    /\ finished = <<>>
    /\ ga_ret = NoGetAllResult

\* struct_config.rs 97-131: one iteration over input.attrs
ParseStructAttr ==
    /\ pc = "parsing"
    /\ attr_i < Len(input.attrs)
    /\ LET st == StructAttrStep([infer_keys |-> infer_keys, prefix |-> prefix,
                                 errors |-> errors], input.attrs[attr_i + 1])
       IN /\ infer_keys' = st.infer_keys
          /\ prefix' = st.prefix
          /\ errors' = st.errors
    /\ attr_i' = attr_i + 1
    /\ UNCHANGED <<input, pc, field_i, generated, output>>
    /\ UNCHANGED run_vars
    /\ UNCHANGED <<two_vars, get_all_vars>>

\* builder_gen.rs 106-109 and lib.rs 164: parse_fields fails, generate_impl
\* returns Err(e) and the derive renders e alone
ShapeError ==
    /\ pc = "parsing"
    /\ attr_i = Len(input.attrs)
    /\ ~ParseFields(input).ok
    /\ output' = [kind |-> "compile_errors",
                  errors |-> <<Unwrap(ParseFields(input).err)>>,
                  body |-> <<>>]
    /\ pc' = "done"
    /\ UNCHANGED <<input, infer_keys, prefix, errors, attr_i, field_i, generated>>
    /\ UNCHANGED run_vars
    /\ UNCHANGED <<two_vars, get_all_vars>>

\* parse_fields succeeds, but the field loop is skipped when the struct-level
\* parser left a diagnostic
FieldsParsedAbortOnErrors ==
    /\ pc = "parsing"
    /\ attr_i = Len(input.attrs)
    /\ ParseFields(input).ok
    /\ pc' = IF errors # <<>> THEN "deciding" ELSE "merging"
    /\ UNCHANGED <<input, infer_keys, prefix, errors, attr_i, field_i, generated, output>>
    /\ UNCHANGED run_vars
    /\ UNCHANGED <<two_vars, get_all_vars>>

\* builder_gen.rs 106-112: parse_fields succeeds
FieldsParsed ==
    /\ pc = "parsing"
    /\ attr_i = Len(input.attrs)
    /\ ParseFields(input).ok
    /\ pc' = "merging"
    /\ UNCHANGED <<input, infer_keys, prefix, errors, attr_i, field_i, generated, output>>
    /\ UNCHANGED run_vars
    /\ UNCHANGED <<two_vars, get_all_vars>>

\* the loop body pushing each snippet to the front
ProcessFieldStepPrepend ==
    /\ pc = "merging"
    /\ field_i < Len(input.fields)
    /\ LET r == ProcessField(input.fields[field_i + 1], infer_keys, prefix, errors)
       IN /\ errors' = r.errors
          /\ generated' = IF IsSome(r.code) THEN <<Unwrap(r.code)>> \o generated
                          ELSE generated
    /\ field_i' = field_i + 1
    /\ UNCHANGED <<input, pc, infer_keys, prefix, attr_i, output>>
    /\ UNCHANGED run_vars
    /\ UNCHANGED <<two_vars, get_all_vars>>

\* builder_gen.rs 116-122: one iteration of `for field in fields`
ProcessFieldStep ==
    /\ pc = "merging"
    /\ field_i < Len(input.fields)
    /\ LET r == ProcessField(input.fields[field_i + 1], infer_keys, prefix, errors)
       IN /\ errors' = r.errors
          /\ generated' = IF IsSome(r.code) THEN Append(generated, Unwrap(r.code))
                          ELSE generated
    /\ field_i' = field_i + 1
    /\ UNCHANGED <<input, pc, infer_keys, prefix, attr_i, output>>
    /\ UNCHANGED run_vars
    /\ UNCHANGED <<two_vars, get_all_vars>>

\* the field loop left as soon as the accumulator holds a diagnostic
FieldsDoneAtFirstError ==
    /\ pc = "merging"
    /\ field_i = Len(input.fields) \/ errors # <<>>
    /\ pc' = "deciding"
    /\ UNCHANGED compile_vars
    /\ UNCHANGED run_vars
    /\ UNCHANGED <<two_vars, get_all_vars>>

\* builder_gen.rs 116/125: the loop has run out of fields
FieldsDone ==
    /\ pc = "merging"
    /\ field_i = Len(input.fields)
    /\ pc' = "deciding"
    /\ UNCHANGED compile_vars
    /\ UNCHANGED run_vars
    /\ UNCHANGED <<two_vars, get_all_vars>>

\* builder_gen.rs 125-128: errors rendered as compile_error! invocations
EmitCompileErrors ==
    /\ pc = "deciding"
    /\ errors # <<>>
    /\ output' = [kind |-> "compile_errors", errors |-> errors, body |-> <<>>]
    /\ pc' = "done"
    /\ UNCHANGED <<input, infer_keys, prefix, errors, attr_i, field_i, generated>>
    /\ UNCHANGED run_vars
    /\ UNCHANGED <<two_vars, get_all_vars>>

\* the impl block emitted without looking at the accumulator
EmitImplDespiteErrors ==
    /\ pc = "deciding"
    /\ output' = [kind |-> "impl", errors |-> <<>>, body |-> generated]
    /\ pc' = "done"
    /\ UNCHANGED <<input, infer_keys, prefix, errors, attr_i, field_i, generated>>
    /\ UNCHANGED run_vars
    /\ UNCHANGED <<two_vars, get_all_vars>>

\* builder_gen.rs 135-146: the impl block around the generated snippets
EmitImpl ==
    /\ pc = "deciding"
    /\ errors = <<>>
    /\ output' = [kind |-> "impl", errors |-> <<>>, body |-> generated]
    /\ pc' = "done"
    /\ UNCHANGED <<input, infer_keys, prefix, errors, attr_i, field_i, generated>>
    /\ UNCHANGED run_vars
    /\ UNCHANGED <<two_vars, get_all_vars>>

NextCompile ==
    \/ ParseStructAttr
    \/ ShapeError
    \/ FieldsParsed
    \/ ProcessFieldStep
    \/ FieldsDone
    \/ EmitCompileErrors
    \/ EmitImpl

Init == InitWith(OrchInputs)

(***************************************************************************)
(* Single-field declarations: every annotation form on every identifier,   *)
(* under every combination of struct defaults                               *)
(***************************************************************************)
FieldShapes == {NamedStruct, [data |-> "Enum", fields_kind |-> "Unit"]}

FieldBlocks ==
    {<<>>} \cup
    {<<AttrList("apply_overrides", toks)>> : toks \in
        {<<Tok("infer_keys", NoValue)>>,
         <<Tok("prefix", StrValue(<<>>))>>,
         <<Tok("prefix", StrValue(<<"p">>))>>,
         <<Tok("infer_keys", NoValue), Tok("prefix", StrValue(<<>>))>>,
         <<Tok("infer_keys", NoValue), Tok("prefix", StrValue(<<"p">>))>>,
         <<Tok("bogus", NoValue)>>}}

FieldIdents == {<<"a">>, <<"a", "_", "b">>, <<"_", "c">>, <<"b", "_", "_">>}

ExplicitKeys == {<<>>, <<"k", "_", "x">>, <<".", "k">>, <<"p", ".", "a">>}
FieldPrefixes == {<<>>, <<"q">>, <<"q", "_">>}

FieldAttrLists ==
    {<<>>,
     <<AttrPath("override_key")>>,
     <<AttrNameValue("override_key", None)>>,
     <<AttrList("override_key", <<>>)>>,
     <<AttrList("override_key", <<Tok("strlit", NoValue)>>)>>,
     <<AttrList("override_key", <<Tok("intlit", NoValue)>>)>>,
     <<AttrList("override_key", <<Tok("infer", NoValue)>>)>>,
     <<AttrList("override_key", <<Tok("infer", NonStrValue)>>)>>,
     <<AttrList("override_key", <<Tok("infer", NoValue), Tok("bogus", NoValue)>>)>>,
     <<AttrList("override_key", <<Tok("bogus", NoValue), Tok("infer", NoValue)>>)>>,
     <<AttrList("override_key", <<Tok("infer", NoValue), Tok("prefix", NonStrValue)>>)>>,
     <<AttrPath("doc"), AttrList("override_key", <<Tok("infer", NoValue)>>)>>}
    \cup {<<AttrNameValue("override_key", Some(k))>> : k \in ExplicitKeys}
    \cup {<<AttrNameValue("override_key", Some(k)), AttrPath("override_key")>> :
             k \in ExplicitKeys}
    \cup {<<AttrPath("override_key"), AttrNameValue("override_key", Some(<<".", "k">>))>>,
          <<AttrList("override_key", <<Tok("infer", NoValue)>>),
            AttrList("override_key", <<Tok("bogus", NoValue)>>)>>}
    \cup {<<AttrList("override_key", <<Tok("infer", NoValue), Tok("prefix", StrValue(x))>>)>> :
             x \in FieldPrefixes}
    \cup {<<AttrList("override_key", <<Tok("prefix", StrValue(x)), Tok("infer", NoValue)>>)>> :
             x \in FieldPrefixes}
    \cup {<<AttrList("override_key", <<Tok("prefix", StrValue(x))>>)>> : x \in FieldPrefixes}

FieldVariants == [ty : {TyString, TyOption}, attrs : FieldAttrLists]

FieldInputs == Declarations(FieldShapes, FieldBlocks, FieldIdents, FieldVariants, 1)

\* struct_config.rs 16-31: the declaration of the module documentation's
\* example
DocPrefix == <<"i", "p", "r", "o", "y", "a", "l">>
DocExample ==
    [data |-> "Struct", fields_kind |-> "Named",
     attrs |-> StampAttrs(<<AttrList("apply_overrides",
                    <<Tok("infer_keys", NoValue), Tok("prefix", StrValue(DocPrefix))>>)>>, 0),
     fields |-> <<MkField(<<"i", "p", "r", "o", "y", "a", "l", "_", "t", "o", "k", "e", "n">>, [ty |-> TyOption, attrs |-> <<>>], 1),
                  MkField(<<"i", "p", "r", "o", "y", "a", "l", "_", "t", "i", "m", "e", "o", "u", "t">>, [ty |-> TyOption, attrs |-> <<>>], 2)>>]

InitField == InitWith(FieldInputs \cup {DocExample})

Spec == Init /\ [][NextCompile]_vars

(***************************************************************************)
(* generate_impl run to its end.  generate_impl is straight-line           *)
(* synchronous code with two bounded loops and no await: whenever a step   *)
(* is possible it is taken, which is weak fairness of the compile steps.   *)
(***************************************************************************)
LiveBlocks ==
    {<<>>,
     <<AttrList("apply_overrides",
                <<Tok("infer_keys", NoValue), Tok("prefix", StrValue(<<"p">>))>>)>>,
     <<AttrList("apply_overrides", <<Tok("bogus", NoValue)>>)>>}

LiveVariants ==
    {[ty |-> TyOption, attrs |-> <<>>],
     [ty |-> TyString, attrs |-> <<AttrNameValue("override_key", Some(<<"k">>))>>],
     [ty |-> TyString, attrs |-> <<AttrPath("override_key")>>]}

LiveInputs == Declarations(Shapes, LiveBlocks, OrchIdents, LiveVariants, MaxFields)

InitLive == InitWith(LiveInputs)

SpecLive == InitLive /\ [][NextCompile]_vars /\ WF_vars(NextCompile)

(***************************************************************************)
(* Declarations for the struct-level parser: every list of one or two      *)
(* tokens in one apply_overrides block, the block without a list, and two  *)
(* blocks on one struct                                                    *)
(***************************************************************************)
StructShapes == {NamedStruct, [data |-> "Enum", fields_kind |-> "Unit"]}

StructTokens ==
    {Tok("infer_keys", NoValue), Tok("prefix", StrValue(<<"p">>)),
     Tok("prefix", NonStrValue), Tok("bogus", NoValue), Tok("bad_token", NoValue)}

StructTokenLists ==
    {<<t>> : t \in StructTokens} \cup {<<t, u>> : <<t, u>> \in StructTokens \X StructTokens}

StructBlocks ==
    {<<>>, <<AttrPath("apply_overrides")>>}
    \cup {<<AttrList("apply_overrides", ts)>> : ts \in StructTokenLists}
    \cup {<<AttrList("apply_overrides", <<Tok("bogus", NoValue)>>),
            AttrList("apply_overrides", <<Tok("infer_keys", NoValue)>>)>>,
          <<AttrList("apply_overrides", <<Tok("prefix", StrValue(<<"p">>))>>),
            AttrList("apply_overrides", <<Tok("prefix", StrValue(<<"q">>))>>)>>,
          <<AttrList("apply_overrides", <<Tok("infer_keys", NoValue)>>),
            AttrList("apply_overrides", <<Tok("bogus", NoValue)>>)>>,
          <<AttrList("apply_overrides", <<Tok("bogus", NoValue)>>),
            AttrList("apply_overrides", <<Tok("bad_token", NoValue)>>)>>,
          <<AttrList("apply_overrides",
                     <<Tok("bogus", NoValue), Tok("infer_keys", NoValue)>>),
            AttrList("apply_overrides", <<Tok("prefix", StrValue(<<"p">>))>>)>>}

StructIdents == {<<"a">>}

StructVariants ==
    {[ty |-> TyOption, attrs |-> <<>>],
     [ty |-> TyString, attrs |-> <<AttrPath("override_key")>>]}

StructInputs == Declarations(StructShapes, StructBlocks, StructIdents, StructVariants, 1)

InitStruct == InitWith(StructInputs)

SpecStruct == InitStruct /\ [][NextCompile]_vars

SpecField == InitField /\ [][NextCompile]_vars

(***************************************************************************)
(* The generated operation: apply_overrides(&self, builder)                 *)
(* (the code quoted in builder_gen.rs 135-146 and utils.rs 177-189).        *)
(*                                                                          *)
(* Runtime values are sequences of strings: <<"Str", x>> is a String,       *)
(* <<"None">> is Option::None and <<"Some">> \o v is Some(v).               *)
(* The external builder's set_override(key, value) either fails for the key *)
(* (key \in rejected) or stores the value under the key.                    *)
(***************************************************************************)
ValStr(x) == <<"Str", x>>
ValNone == <<"None">>
ValSome(v) == <<"Some">> \o v
ValInner(v) == Tail(v)

\* The values a field of type ty can hold
ValuesOfType(ty) ==
    IF ty = TyOption THEN {ValNone, ValSome(ValStr("x"))}
    ELSE IF ty = TyOptionOption
    THEN {ValNone, ValSome(ValNone), ValSome(ValSome(ValStr("x")))}
    ELSE {ValStr("y")}

\* The instances of the struct: one value per field, of the field's type
Instances(fields) ==
    {vs \in [1..Len(fields) -> UNION {ValuesOfType(f.ty) : f \in Range(fields)}] :
        \A j \in 1..Len(fields) : vs[j] \in ValuesOfType(fields[j].ty)}

\* self.<ident>
FieldValue(ident) ==
    self_values[CHOOSE j \in 1..Len(input.fields) : input.fields[j].ident = ident]

SnippetKeys == {output.body[k].key : k \in 1..Len(output.body)}

\* The builders a caller passes in: a fresh one, or one that already holds an
\* override
GivenBuilders == {FreshBuilder, (<<"k">> :> ValStr("old"))}

\* The impl compiled: a caller invokes apply_overrides on an instance, with a
\* builder b that rejects the keys r (core lib.rs 134-140: `mut builder` is
\* the caller's builder, moved in)
Call ==
    /\ pc = "done"
    /\ output.kind = "impl"
    /\ \E vs \in Instances(input.fields), r \in SUBSET SnippetKeys, b \in GivenBuilders :
          /\ self_values' = vs
          /\ rejected' = r
          /\ given' = b
          /\ builder' = b
    /\ pc' = "running"
    /\ UNCHANGED <<calls, snippet_i, ret, first>>
    /\ UNCHANGED compile_vars
    /\ UNCHANGED <<two_vars, get_all_vars>>

\* The argument of a snippet whose guard unwraps every Option level
SnippetArgFlattening(sn) ==
    IF ~sn.guarded THEN FieldValue(sn.ident)
    ELSE LET v == ValInner(FieldValue(sn.ident)) IN
         IF v[1] = "Some" THEN ValInner(v) ELSE v

\* The argument the next snippet passes to set_override: v.clone() inside the
\* guard, self.<ident>.clone() without it
SnippetArg(sn) ==
    IF sn.guarded THEN ValInner(FieldValue(sn.ident)) ELSE FieldValue(sn.ident)

\* Whether the next snippet reaches its set_override call
SnippetCalls(sn) == ~sn.guarded \/ FieldValue(sn.ident) # ValNone

\* utils.rs 180-182: `if let Some(v) = &self.<ident>` does not match
SkipNone ==
    /\ pc = "running"
    /\ snippet_i < Len(output.body)
    /\ ~SnippetCalls(output.body[snippet_i + 1])
    /\ snippet_i' = snippet_i + 1
    /\ UNCHANGED <<pc, self_values, rejected, builder, calls, ret, given, first>>
    /\ UNCHANGED compile_vars
    /\ UNCHANGED <<two_vars, get_all_vars>>

\* set_override succeeds, but a key already set keeps its earlier value
OverrideOkFirstWins ==
    /\ pc = "running"
    /\ snippet_i < Len(output.body)
    /\ LET sn == output.body[snippet_i + 1] IN
       /\ SnippetCalls(sn)
       /\ sn.key \notin rejected
       /\ calls' = Append(calls, <<sn.key, SnippetArg(sn)>>)
       /\ builder' = builder @@ (sn.key :> SnippetArg(sn))
    /\ snippet_i' = snippet_i + 1
    /\ UNCHANGED <<pc, self_values, rejected, ret, given, first>>
    /\ UNCHANGED compile_vars
    /\ UNCHANGED <<two_vars, get_all_vars>>

\* set_override succeeds, the value moved out of the field (`take()`) instead
\* of cloned
OverrideOkTaking ==
    /\ pc = "running"
    /\ snippet_i < Len(output.body)
    /\ LET sn == output.body[snippet_i + 1]
           j == CHOOSE j \in 1..Len(input.fields) : input.fields[j].ident = sn.ident
       IN
       /\ SnippetCalls(sn)
       /\ sn.key \notin rejected
       /\ calls' = Append(calls, <<sn.key, SnippetArg(sn)>>)
       /\ builder' = (sn.key :> SnippetArg(sn)) @@ builder
       /\ self_values' = IF sn.guarded THEN [self_values EXCEPT ![j] = ValNone]
                         ELSE self_values
    /\ snippet_i' = snippet_i + 1
    /\ UNCHANGED <<pc, rejected, ret, given, first>>
    /\ UNCHANGED compile_vars
    /\ UNCHANGED <<two_vars, get_all_vars>>

\* utils.rs 181/187: builder = builder.set_override(key, value)? succeeds
OverrideOk ==
    /\ pc = "running"
    /\ snippet_i < Len(output.body)
    /\ LET sn == output.body[snippet_i + 1] IN
       /\ SnippetCalls(sn)
       /\ sn.key \notin rejected
       /\ calls' = Append(calls, <<sn.key, SnippetArg(sn)>>)
       /\ builder' = (sn.key :> SnippetArg(sn)) @@ builder
    /\ snippet_i' = snippet_i + 1
    /\ UNCHANGED <<pc, self_values, rejected, ret, given, first>>
    /\ UNCHANGED compile_vars
    /\ UNCHANGED <<two_vars, get_all_vars>>

\* the failure of set_override dropped, the run going on to the next snippet
OverrideErrSwallowed ==
    /\ pc = "running"
    /\ snippet_i < Len(output.body)
    /\ LET sn == output.body[snippet_i + 1] IN
       /\ SnippetCalls(sn)
       /\ sn.key \in rejected
       /\ calls' = Append(calls, <<sn.key, SnippetArg(sn)>>)
    /\ snippet_i' = snippet_i + 1
    /\ UNCHANGED <<pc, self_values, rejected, builder, ret, given, first>>
    /\ UNCHANGED compile_vars
    /\ UNCHANGED <<two_vars, get_all_vars>>

\* utils.rs 181/187: set_override fails and `?` returns the error
OverrideErr ==
    /\ pc = "running"
    /\ snippet_i < Len(output.body)
    /\ LET sn == output.body[snippet_i + 1] IN
       /\ SnippetCalls(sn)
       /\ sn.key \in rejected
       /\ calls' = Append(calls, <<sn.key, SnippetArg(sn)>>)
       /\ ret' = [tag |-> "Err", key |-> sn.key, builder |-> <<>>]
    /\ pc' = "returned"
    /\ UNCHANGED <<self_values, rejected, builder, snippet_i, given, first>>
    /\ UNCHANGED compile_vars
    /\ UNCHANGED <<two_vars, get_all_vars>>

\* builder_gen.rs 143: Ok(builder)
ReturnOk ==
    /\ pc = "running"
    /\ snippet_i = Len(output.body)
    /\ ret' = [tag |-> "Ok", key |-> <<>>, builder |-> builder]
    /\ pc' = "returned"
    /\ UNCHANGED <<self_values, rejected, builder, calls, snippet_i, given, first>>
    /\ UNCHANGED compile_vars
    /\ UNCHANGED <<two_vars, get_all_vars>>

Next ==
    \/ NextCompile
    \/ Call
    \/ SkipNone
    \/ OverrideOk
    \/ OverrideErr
    \/ ReturnOk

\* core lib.rs 134-140: apply_overrides borrows the instance (`&self`), so the
\* caller can invoke it again on the same field values, with a builder equal
\* to the one it passed the first time; what the first invocation did is kept
\* for comparison
CallAgain ==
    /\ pc = "returned"
    /\ first = None
    /\ first' = Some([calls |-> calls, ret |-> ret])
    /\ builder' = given
    /\ calls' = <<>>
    /\ snippet_i' = 0
    /\ ret' = NoResult
    /\ pc' = "running"
    /\ UNCHANGED <<self_values, rejected, given>>
    /\ UNCHANGED compile_vars
    /\ UNCHANGED <<two_vars, get_all_vars>>

NextTwice ==
    \/ NextCompile
    \/ Call
    \/ SkipNone
    \/ OverrideOk
    \/ OverrideErr
    \/ ReturnOk
    \/ CallAgain

(***************************************************************************)
(* Declarations whose generated operation is run                            *)
(***************************************************************************)
RunShapes == {NamedStruct, [data |-> "Enum", fields_kind |-> "Unit"]}

RunBlocks ==
    {<<>>,
     <<AttrList("apply_overrides",
                <<Tok("infer_keys", NoValue), Tok("prefix", StrValue(<<"p">>))>>)>>,
     <<AttrList("apply_overrides", <<Tok("bogus", NoValue)>>)>>}

RunIdents == {<<"a">>, <<"a", "_", "b">>, <<"c">>}

RunVariants ==
    {[ty |-> TyString, attrs |-> <<AttrNameValue("override_key", Some(<<"k">>))>>],
     [ty |-> TyOption, attrs |-> <<AttrNameValue("override_key", Some(<<"k">>))>>],
     [ty |-> TyOption, attrs |-> <<>>],
     [ty |-> TyString, attrs |-> <<>>],
     [ty |-> TyOptionOption,
      attrs |-> <<AttrList("override_key",
                           <<Tok("infer", NoValue), Tok("prefix", StrValue(<<"q">>))>>)>>],
     [ty |-> TyVecString, attrs |-> <<AttrPath("override_key")>>]}

RunInputs == Declarations(RunShapes, RunBlocks, RunIdents, RunVariants, MaxFields)

InitRun == InitWith(RunInputs)

SpecRun == InitRun /\ [][Next]_vars

\* Declarations whose generated operation is invoked twice
TwiceVariants ==
    {[ty |-> TyString, attrs |-> <<AttrNameValue("override_key", Some(<<"k">>))>>],
     [ty |-> TyOption, attrs |-> <<AttrNameValue("override_key", Some(<<"k">>))>>],
     [ty |-> TyOption, attrs |-> <<>>],
     [ty |-> TyOptionOption,
      attrs |-> <<AttrList("override_key",
                           <<Tok("infer", NoValue), Tok("prefix", StrValue(<<"q">>))>>)>>]}

TwiceInputs == Declarations(RunShapes, RunBlocks, RunIdents, TwiceVariants, MaxFields)

InitTwice == InitWith(TwiceInputs)

SpecTwice == InitTwice /\ [][NextTwice]_vars


(***************************************************************************)
(* Two invocations of generate_impl, on independent structs.                *)
(* The second invocation's locals (builder_gen.rs 103, 112, 114;            *)
(* struct_config.rs 90-94) are the fields of the record `other`; its steps  *)
(* are those of the first, interleaved with them in any order.              *)
(***************************************************************************)
\* The locals of generate_impl on entry
EnterGenerateImpl(inp) ==
    [input |-> inp, pc |-> "parsing", infer_keys |-> FALSE, prefix |-> None,
     errors |-> <<>>, attr_i |-> 0, field_i |-> 0, generated |-> <<>>,
     output |-> NoOutput]

\* One step of generate_impl on the locals st
GenerateImplStep(st) ==
    IF st.pc = "parsing" /\ st.attr_i < Len(st.input.attrs)
    THEN LET r == StructAttrStep([infer_keys |-> st.infer_keys, prefix |-> st.prefix,
                                  errors |-> st.errors], st.input.attrs[st.attr_i + 1])
         IN [st EXCEPT !.infer_keys = r.infer_keys, !.prefix = r.prefix,
                       !.errors = r.errors, !.attr_i = @ + 1]
    ELSE IF st.pc = "parsing"
    THEN IF ParseFields(st.input).ok
         THEN [st EXCEPT !.pc = "merging"]
         ELSE [st EXCEPT !.pc = "done",
                         !.output = [kind |-> "compile_errors",
                                     errors |-> <<Unwrap(ParseFields(st.input).err)>>,
                                     body |-> <<>>]]
    ELSE IF st.pc = "merging" /\ st.field_i < Len(st.input.fields)
    THEN LET r == ProcessField(st.input.fields[st.field_i + 1], st.infer_keys,
                               st.prefix, st.errors)
         IN [st EXCEPT !.errors = r.errors,
                       !.generated = IF IsSome(r.code) THEN Append(@, Unwrap(r.code))
                                     ELSE @,
                       !.field_i = @ + 1]
    ELSE IF st.pc = "merging"
    THEN [st EXCEPT !.pc = "deciding"]
    ELSE IF st.pc = "deciding"
    THEN IF st.errors # <<>>
         THEN [st EXCEPT !.pc = "done",
                         !.output = [kind |-> "compile_errors", errors |-> st.errors,
                                     body |-> <<>>]]
         ELSE [st EXCEPT !.pc = "done",
                         !.output = [kind |-> "impl", errors |-> <<>>,
                                     body |-> st.generated]]
    ELSE st

\* The second invocation with the diagnostics accumulator a static shared with
\* the first invocation instead of a local
OtherStepSharedErrors ==
    /\ other.pc \notin {"absent", "done"}
    /\ LET st == GenerateImplStep([other EXCEPT !.errors = errors]) IN
       /\ other' = st
       /\ errors' = st.errors
    /\ UNCHANGED <<input, pc, infer_keys, prefix, attr_i, field_i, generated, output>>
    /\ UNCHANGED <<run_vars, get_all_vars>>

\* builder_gen.rs 89-147: the second invocation takes a step on its own locals
OtherStep ==
    /\ other.pc \notin {"absent", "done"}
    /\ other' = GenerateImplStep(other)
    /\ UNCHANGED <<pc, compile_vars, run_vars, get_all_vars>>

TwoShapes == {NamedStruct, [data |-> "Struct", fields_kind |-> "Unnamed"]}

TwoBlocks ==
    {<<>>,
     <<AttrList("apply_overrides",
                <<Tok("infer_keys", NoValue), Tok("prefix", StrValue(<<"p">>))>>)>>,
     <<AttrList("apply_overrides", <<Tok("bogus", NoValue)>>)>>}

TwoIdents == {<<"a">>, <<"b">>}

TwoVariants ==
    {[ty |-> TyOption, attrs |-> <<AttrNameValue("override_key", Some(<<"k">>))>>],
     [ty |-> TyString, attrs |-> <<>>],
     [ty |-> TyString, attrs |-> <<AttrPath("override_key")>>]}

TwoInputs == Declarations(TwoShapes, TwoBlocks, TwoIdents, TwoVariants, 1)

InitTwo ==
    /\ input \in TwoInputs
    /\ pc = "parsing"
    /\ infer_keys = FALSE
    /\ prefix = None
    /\ errors = <<>>
    /\ attr_i = 0
    /\ field_i = 0
    /\ generated = <<>>
    /\ output = NoOutput
    /\ self_values = <<>>
    /\ rejected = {}
    /\ builder = <<>>
    /\ calls = <<>>
    /\ snippet_i = 0
    /\ ret = NoResult
    /\ given = FreshBuilder
    /\ first = None
    /\ other \in {EnterGenerateImpl(inp) : inp \in TwoInputs}
    /\ outcome = NoOutcomes
    /\ finished = <<>>
    /\ ga_ret = NoGetAllResult

NextTwo ==
    \/ NextCompile
    \/ OtherStep

SpecTwo == InitTwo /\ [][NextTwo]_vars


(***************************************************************************)
(* update_location/src/infatica/get_all.rs: get_all                         *)
(*                                                                          *)
(* tokio::join! polls the four fetches on one task until every one of them  *)
(* has completed; they complete in any order, each with Ok(records) or      *)
(* Err(HTTPError).  A dataset is a sequence of records; the Ok value of     *)
(* get_all is the argument list of InfaticaQueryResults::new.               *)
(***************************************************************************)
\* The fetches, in the order join! lists them and get_all matches on them
FetchOrder == <<"GeoNodes", "RegionCodes", "ZipCodes", "IspCodes">>
FetchNames == Range(FetchOrder)

\* internal/errors.rs: enum HTTPError
HTTPErrors == {"JoinURLError", "URLError"}
Datasets == {<<>>, <<"rec">>}

Pending == [tag |-> "Pending", val |-> <<>>, err |-> ""]
FetchOk(v) == [tag |-> "Ok", val |-> v, err |-> ""]
FetchErr(e) == [tag |-> "Err", val |-> <<>>, err |-> e]
FetchResults == {FetchOk(v) : v \in Datasets} \cup {FetchErr(e) : e \in HTTPErrors}

\* errors.rs: InfaticaQueryError::<variant>(e)
InfaticaQueryError(variant, e) == [variant |-> variant, err |-> e]

InitGetAll ==
    /\ input = [data |-> "Struct", fields_kind |-> "Unit", attrs |-> <<>>, fields |-> <<>>]
    /\ pc = "joining"
    /\ infer_keys = FALSE
    /\ prefix = None
    /\ errors = <<>>
    /\ attr_i = 0
    /\ field_i = 0
    /\ generated = <<>>
    /\ output = NoOutput
    /\ self_values = <<>>
    /\ rejected = {}
    /\ builder = <<>>
    /\ calls = <<>>
    /\ snippet_i = 0
    /\ ret = NoResult
    /\ given = FreshBuilder
    /\ first = None
    /\ other = NoInvocation
    /\ outcome = [op \in FetchNames |-> Pending]
    /\ finished = <<>>
    /\ ga_ret = NoGetAllResult

\* One of the joined futures completes, with any result
FetchCompletes(op) ==
    /\ pc = "joining"
    /\ outcome[op] = Pending
    /\ \E r \in FetchResults : outcome' = [outcome EXCEPT ![op] = r]
    /\ finished' = Append(finished, op)
    /\ UNCHANGED <<pc, ga_ret>>
    /\ UNCHANGED <<compile_vars, run_vars, two_vars>>

\* get_all.rs 39-42: the four futures handed to join!
geo_nodes == FetchCompletes("GeoNodes")
region_codes == FetchCompletes("RegionCodes")
zip_codes == FetchCompletes("ZipCodes")
isp_codes == FetchCompletes("IspCodes")

\* get_all.rs 45-80: the four matches, in order; errs is the errors vector
RECURSIVE CollectErrors(_, _)
CollectErrors(res, k) ==
    IF k = 0 THEN <<>>
    ELSE LET op == FetchOrder[k] IN
         IF res[op].tag = "Err"
         THEN Append(CollectErrors(res, k - 1), InfaticaQueryError(op, res[op].err))
         ELSE CollectErrors(res, k - 1)

\* get_all.rs 57-80: the holders g, r, z, i: Vec::new() unless the match was Ok
Holders(res) ==
    [k \in 1..Len(FetchOrder) |->
        IF res[FetchOrder[k]].tag = "Ok" THEN res[FetchOrder[k]].val ELSE <<>>]

\* get_all returning at the first failed fetch, without waiting for the
\* others (try_join! in place of join!)
GetAllReturnAtFirstError ==
    /\ pc = "joining"
    /\ \/ \E op \in FetchNames : outcome[op].tag = "Err"
       \/ \A op \in FetchNames : outcome[op] # Pending
    /\ LET errs == CollectErrors(outcome, Len(FetchOrder)) IN
       ga_ret' = IF errs # <<>>
                 THEN [tag |-> "Err", errors |-> <<errs[1]>>, results |-> <<>>]
                 ELSE [tag |-> "Ok", errors |-> <<>>, results |-> Holders(outcome)]
    /\ pc' = "got_all"
    /\ UNCHANGED <<outcome, finished>>
    /\ UNCHANGED <<compile_vars, run_vars, two_vars>>

\* The errors of the failed fetches in the order `order` lists the fetches
RECURSIVE CollectErrorsIn(_, _, _)
CollectErrorsIn(order, res, k) ==
    IF k = 0 THEN <<>>
    ELSE LET op == order[k] IN
         IF res[op].tag = "Err"
         THEN Append(CollectErrorsIn(order, res, k - 1), InfaticaQueryError(op, res[op].err))
         ELSE CollectErrorsIn(order, res, k - 1)

\* get_all collecting the errors as the fetches complete, in completion order
GetAllReturnInCompletionOrder ==
    /\ pc = "joining"
    /\ \A op \in FetchNames : outcome[op] # Pending
    /\ LET errs == CollectErrorsIn(finished, outcome, Len(finished)) IN
       ga_ret' = IF errs # <<>>
                 THEN [tag |-> "Err", errors |-> errs, results |-> <<>>]
                 ELSE [tag |-> "Ok", errors |-> <<>>, results |-> Holders(outcome)]
    /\ pc' = "got_all"
    /\ UNCHANGED <<outcome, finished>>
    /\ UNCHANGED <<compile_vars, run_vars, two_vars>>

\* get_all.rs 38-96: join! has returned the four results; collect, return
GetAllReturn ==
    /\ pc = "joining"
    /\ \A op \in FetchNames : outcome[op] # Pending
    /\ LET errs == CollectErrors(outcome, Len(FetchOrder)) IN
       ga_ret' = IF errs # <<>>
                 THEN [tag |-> "Err", errors |-> errs, results |-> <<>>]
                 ELSE [tag |-> "Ok", errors |-> <<>>, results |-> Holders(outcome)]
    /\ pc' = "got_all"
    /\ UNCHANGED <<outcome, finished>>
    /\ UNCHANGED <<compile_vars, run_vars, two_vars>>

NextGetAll ==
    \/ geo_nodes
    \/ region_codes
    \/ zip_codes
    \/ isp_codes
    \/ GetAllReturn

SpecGetAll == InitGetAll /\ [][NextGetAll]_vars


(***************************************************************************)
(* Vocabulary of the properties                                             *)
(***************************************************************************)
IsNamedStruct(inp) == inp.data = "Struct" /\ inp.fields_kind = "Named"


\* A field-level token of the accepted inference form
GoodFieldToken(t) ==
    \/ t.path = "infer" /\ t.value = NoValue
    \/ t.path = "prefix" /\ t.value \notin {NoValue, NonStrValue}

\* An override_key annotation of one of the two accepted forms:
\* override_key = "<string>", or override_key(infer[, prefix = "<string>"])
WellFormedFieldAttr(a) ==
    \/ a.meta = "NameValue" /\ IsSome(a.value)
    \/ /\ a.meta = "List"
       /\ \A t \in Range(a.tokens) : GoodFieldToken(t)
       /\ \E t \in Range(a.tokens) : t.path = "infer"

\* An apply_overrides block whose tokens are all infer_keys or prefix = "<string>"
WellFormedStructAttr(a) ==
    /\ a.meta = "List"
    /\ \A t \in Range(a.tokens) :
          \/ t.path = "infer_keys" /\ t.value = NoValue
          \/ t.path = "prefix" /\ t.value \notin {NoValue, NonStrValue}

MalformedFieldAttr(a) == a.path = "override_key" /\ ~WellFormedFieldAttr(a)
MalformedStructAttr(a) == a.path = "apply_overrides" /\ ~WellFormedStructAttr(a)

\* Some annotation of the struct or of one of its fields is malformed
HasMalformedAnnotation(inp) ==
    \/ \E a \in Range(inp.attrs) : MalformedStructAttr(a)
    \/ \E f \in Range(inp.fields) : \E a \in Range(f.attrs) : MalformedFieldAttr(a)

\* The output holds diagnostics and nothing else
OnlyDiagnostics == output.kind = "compile_errors" /\ output.body = <<>> /\ output.errors # <<>>

\* q is p with elements left out, order kept, and holds no element twice
RECURSIVE IsSubsequence(_, _)
IsSubsequence(p, q) ==
    IF p = <<>> THEN TRUE
    ELSE IF q = <<>> THEN FALSE
    ELSE IF Head(p) = Head(q) THEN IsSubsequence(Tail(p), Tail(q))
    ELSE IsSubsequence(p, Tail(q))

NoDuplicates(q) == \A k, m \in 1..Len(q) : q[k] = q[m] => k = m

\* The fields of a declaration that get a key strategy under the struct
\* defaults (si, sp), in declaration order
ParticipatingFields(inp, si, sp) ==
    SelectSeq(inp.fields, LAMBDA f : IsSome(ProcessField(f, si, sp, <<>>).code))

C2_MalformedMeansDiagnosticsOnly ==
    (pc = "done" /\ HasMalformedAnnotation(input)) => OnlyDiagnostics

C5_DiagnosticsNeverDiscarded ==
    (pc = "done" /\ output.kind = "compile_errors")
        => /\ IsSubsequence(errors, output.errors)
           /\ NoDuplicates(output.errors)

(***************************************************************************)
(* Vocabulary of the key properties                                         *)
(***************************************************************************)
\* The override_key annotation that decides field f (the first one), if any
DecidingAttr(f) ==
    LET ks == {k \in 1..Len(f.attrs) : f.attrs[k].path = "override_key"} IN
    IF ks = {} THEN None
    ELSE Some(f.attrs[CHOOSE k \in ks : \A m \in ks : k <= m])

\* The snippets generated for the field named ident
SnippetsOf(ident) == {k \in 1..Len(generated) : generated[k].ident = ident}

\* The prefix a well-formed inference request carries, if any
RequestPrefix(a) ==
    LET ts == {t \in 1..Len(a.tokens) : a.tokens[t].path = "prefix"} IN
    IF ts = {} THEN None
    ELSE Some(Unwrap(Unwrap(a.tokens[CHOOSE t \in ts : \A u \in ts : u <= t].value)))

HasExplicitKey(f) ==
    /\ IsSome(DecidingAttr(f))
    /\ Unwrap(DecidingAttr(f)).meta = "NameValue"
    /\ IsSome(Unwrap(DecidingAttr(f)).value)

HasInferRequest(f) ==
    /\ IsSome(DecidingAttr(f))
    /\ Unwrap(DecidingAttr(f)).meta = "List"
    /\ WellFormedFieldAttr(Unwrap(DecidingAttr(f)))

\* An inferred field: a well-formed inference request, or no annotation under
\* struct-level inference
IsInferredField(f) == HasInferRequest(f) \/ (~IsSome(DecidingAttr(f)) /\ infer_keys)

\* The effective prefix of an inferred field
EffectivePrefix(f) ==
    IF HasInferRequest(f) /\ IsSome(RequestPrefix(Unwrap(DecidingAttr(f))))
    THEN RequestPrefix(Unwrap(DecidingAttr(f)))
    ELSE prefix

\* key is ident with each underscore turned into a dot, after `pre` and a dot
\* when pre is a non-empty string
IsInferredKey(key, pre, ident) ==
    LET n == IF IsSome(pre) /\ Len(Unwrap(pre)) > 0 THEN Len(Unwrap(pre)) + 1 ELSE 0 IN
    /\ Len(key) = n + Len(ident)
    /\ n > 0 => (SubSeq(key, 1, n - 1) = Unwrap(pre) /\ key[n] = ".")
    /\ \A i \in 1..Len(ident) :
          key[n + i] = IF ident[i] = "_" THEN "." ELSE ident[i]

ProcessedFields == {input.fields[j] : j \in 1..field_i}

(***************************************************************************)
(* C6 - A field with an explicit key gets exactly that literal as its key,  *)
(* with no normalisation and no prefix, whatever the struct-level           *)
(* inference flag and prefix are.                                           *)
(***************************************************************************)
C6_ExplicitKeyVerbatim ==
    \A f \in ProcessedFields :
        HasExplicitKey(f) =>
            /\ SnippetsOf(f.ident) # {}
            /\ \A k \in SnippetsOf(f.ident) :
                  generated[k].key = Unwrap(Unwrap(DecidingAttr(f)).value)

\* an explicit key holding an underscore, under struct inference with a prefix
C6_Witness ==
    \E f \in ProcessedFields :
        /\ HasExplicitKey(f)
        /\ "_" \in Range(Unwrap(Unwrap(DecidingAttr(f)).value))
        /\ infer_keys /\ prefix = Some(<<"p">>)
        /\ SnippetsOf(f.ident) # {}

PrefixedBase(pre, ident) ==
    IF pre = <<>> THEN ReplaceUnderscores(ident)
    ELSE pre \o <<".">> \o ReplaceUnderscores(ident)

C8_FieldPrefixOverridesStructPrefix ==
    \A f \in ProcessedFields :
        HasInferRequest(f) =>
            LET p == RequestPrefix(Unwrap(DecidingAttr(f))) IN
            \A k \in SnippetsOf(f.ident) :
                generated[k].key =
                    IF IsSome(p) THEN PrefixedBase(Unwrap(p), f.ident)
                    ELSE IF IsSome(prefix) THEN PrefixedBase(Unwrap(prefix), f.ident)
                    ELSE ReplaceUnderscores(f.ident)

\* a request prefix (here the empty one) against a different struct prefix
C8_Witness ==
    \E f \in ProcessedFields :
        /\ HasInferRequest(f)
        /\ RequestPrefix(Unwrap(DecidingAttr(f))) = Some(<<>>)
        /\ prefix = Some(<<"p">>)
        /\ SnippetsOf(f.ident) # {}

(***************************************************************************)
(* Vocabulary of the run-time properties                                    *)
(***************************************************************************)
IsOptionalField(f) == f.ty \in {TyOption, TyOptionOption}

\* A field that takes part in the generated operation
Participates(f) == HasExplicitKey(f) \/ IsInferredField(f)

\* The key synthesized for a participating field
SynthesizedKey(f) ==
    IF HasExplicitKey(f) THEN Unwrap(Unwrap(DecidingAttr(f)).value)
    ELSE IF IsSome(EffectivePrefix(f)) THEN PrefixedBase(Unwrap(EffectivePrefix(f)), f.ident)
    ELSE ReplaceUnderscores(f.ident)

\* The set_override calls field j asks for: none, or one (key, value)
CallsOfField(j) ==
    LET f == input.fields[j] IN
    IF ~Participates(f) THEN <<>>
    ELSE IF ~IsOptionalField(f) THEN <<<<SynthesizedKey(f), self_values[j]>>>>
    ELSE IF self_values[j] = ValNone THEN <<>>
    ELSE <<<<SynthesizedKey(f), Tail(self_values[j])>>>>

RECURSIVE CallsOfFields(_)
CallsOfFields(n) == IF n = 0 THEN <<>> ELSE CallsOfFields(n - 1) \o CallsOfField(n)

ExpectedCalls == CallsOfFields(Len(input.fields))

\* The positions of the calls in q whose key the builder rejects
RejectedCalls(q) == {k \in 1..Len(q) : q[k][1] \in rejected}

\* The overrides a fresh builder holds after accepting the calls q in order
OverridesAfter(q) ==
    [key \in {q[k][1] : k \in 1..Len(q)} |->
        q[CHOOSE k \in 1..Len(q) :
              q[k][1] = key /\ \A m \in 1..Len(q) : q[m][1] = key => m <= k][2]]

(***************************************************************************)
(* C9 - In a run in which no set_override call fails, set_override is       *)
(* invoked exactly once, with (synthesized key, current value), for each    *)
(* participating concrete field and each participating optional field that  *)
(* holds a value, in declaration order; never for a participating optional  *)
(* field holding no value nor for a field that does not participate.        *)
(***************************************************************************)
C9_GuardedEmission ==
    (pc = "returned" /\ ret.tag = "Ok") => calls = ExpectedCalls

\* one call made, and a participating optional field that holds no value
C9_Witness ==
    /\ pc = "returned" /\ ret.tag = "Ok"
    /\ Len(calls) = 1
    /\ \E j \in 1..Len(input.fields) :
          /\ Participates(input.fields[j])
          /\ IsOptionalField(input.fields[j])
          /\ self_values[j] = ValNone

(***************************************************************************)
(* C10 - The generated operation returns either the updated builder or the  *)
(* failure of the first set_override call that failed: no failure is        *)
(* passed over, and no call follows the first failing one.                  *)
(***************************************************************************)
C10_FailurePropagation ==
    /\ pc = "running" => RejectedCalls(calls) = {}
    /\ pc = "returned" =>
          \/ /\ ret.tag = "Ok"
             /\ RejectedCalls(ExpectedCalls) = {}
             /\ calls = ExpectedCalls
             /\ ret.builder = OverridesAfter(calls) @@ given
          \/ /\ ret.tag = "Err"
             /\ RejectedCalls(calls) = {Len(calls)}
             /\ ret.key = calls[Len(calls)][1]
             /\ Len(calls) <= Len(ExpectedCalls)
             /\ calls = SubSeq(ExpectedCalls, 1, Len(calls))

\* two calls due, both keys rejected: the run stops at the first
C10_Witness ==
    /\ pc = "returned" /\ ret.tag = "Err"
    /\ Len(ExpectedCalls) = 2
    /\ RejectedCalls(ExpectedCalls) = {1, 2}
    /\ Len(calls) = 1

(***************************************************************************)
(* C11 - For a struct with no struct-level inference and no field           *)
(* annotation, the generated operation makes no set_override call and       *)
(* returns the builder it was given unchanged, whatever the types and the   *)
(* values of the fields.                                                    *)
(***************************************************************************)
\* No apply_overrides block asks for inference and no field is annotated
IsPlainStruct(inp) ==
    /\ \A a \in Range(inp.attrs) :
          a.path = "apply_overrides" => \A t \in Range(a.tokens) : t.path # "infer_keys"
    /\ \A f \in Range(inp.fields) : \A a \in Range(f.attrs) : a.path # "override_key"

C11_PlainStructIsIdentity ==
    IsPlainStruct(input) =>
        /\ pc \in {"running", "returned"} => calls = <<>> /\ builder = given
        /\ pc = "returned" => ret = [tag |-> "Ok", key |-> <<>>, builder |-> given]

\* two unannotated fields, an Option holding a value among them, and a
\* builder that already held an override
C11_Witness ==
    /\ pc = "returned"
    /\ IsPlainStruct(input)
    /\ Len(input.fields) = 2
    /\ \E j \in 1..2 : input.fields[j].ty = TyOption /\ self_values[j] # ValNone
    /\ \E j \in 1..2 : input.fields[j].ty = TyString
    /\ given # FreshBuilder

CallsUnderKeyOf(j) ==
    {k \in 1..Len(calls) : calls[k][1] = SynthesizedKey(input.fields[j])}

\* No other participating field has the key of field j
KeyIsOwn(j) ==
    \A m \in 1..Len(input.fields) :
        (m # j /\ Participates(input.fields[m]))
            => SynthesizedKey(input.fields[m]) # SynthesizedKey(input.fields[j])

C13_OuterLevelOnly ==
    (pc = "returned" /\ ret.tag = "Ok") =>
        \A j \in 1..Len(input.fields) :
            (input.fields[j].ty = TyOptionOption /\ Participates(input.fields[j])
             /\ KeyIsOwn(j)) =>
                IF self_values[j] = ValNone
                THEN CallsUnderKeyOf(j) = {}
                ELSE /\ Cardinality(CallsUnderKeyOf(j)) = 1
                     /\ \A k \in CallsUnderKeyOf(j) :
                           /\ calls[k][2] = ValInner(self_values[j])
                           /\ ret.builder[calls[k][1]] = ValInner(self_values[j])

\* Some(None): the call is made, and its value is the inner None
C13_Witness ==
    /\ pc = "returned" /\ ret.tag = "Ok"
    /\ \E j \in 1..Len(input.fields) :
          /\ input.fields[j].ty = TyOptionOption
          /\ self_values[j] = ValSome(ValNone)
          /\ \E k \in 1..Len(calls) :
                calls[k] = <<SynthesizedKey(input.fields[j]), ValNone>>

(***************************************************************************)
(* C14 - get_all runs the four fetches to completion, with no early return. *)
(* It returns Err exactly when at least one fetch failed, and the Err holds *)
(* exactly one error per failed fetch, tagged with that fetch's variant and *)
(* carrying its error; otherwise it returns Ok holding the four datasets,   *)
(* each the success value of its own fetch.                                 *)
(***************************************************************************)
FailedFetches == {op \in FetchNames : outcome[op].tag = "Err"}

C14_GetAllAggregates ==
    /\ pc = "joining" => ga_ret = NoGetAllResult
    /\ pc = "got_all" =>
          /\ \A op \in FetchNames : outcome[op] # Pending
          /\ Range(finished) = FetchNames
          /\ ga_ret.tag = IF FailedFetches # {} THEN "Err" ELSE "Ok"
          /\ ga_ret.tag = "Err" =>
                /\ Len(ga_ret.errors) = Cardinality(FailedFetches)
                /\ \A op \in FailedFetches :
                      \E k \in 1..Len(ga_ret.errors) :
                          ga_ret.errors[k] = InfaticaQueryError(op, outcome[op].err)
                /\ \A k \in 1..Len(ga_ret.errors) :
                      ga_ret.errors[k].variant \in FailedFetches
          /\ ga_ret.tag = "Ok" =>
                /\ Len(ga_ret.results) = Len(FetchOrder)
                /\ \A k \in 1..Len(FetchOrder) :
                      ga_ret.results[k] = outcome[FetchOrder[k]].val

\* two fetches failed, two succeeded, and the last fetch listed completed first
C14_Witness ==
    /\ pc = "got_all"
    /\ ga_ret.tag = "Err"
    /\ Cardinality(FailedFetches) = 2
    /\ finished[1] = "IspCodes"
    /\ \E op \in FetchNames : outcome[op] = FetchOk(<<"rec">>)

(***************************************************************************)
(* C15 - Compilations do not interfere: whatever the interleaving of two    *)
(* invocations of generate_impl on independent structs, each struct gets    *)
(* exactly the output it gets when compiled alone, and no diagnostic or     *)
(* fragment of one struct appears in the other's output.                    *)
(***************************************************************************)
\* The output of generate_impl run from the locals st with nothing else going on
RECURSIVE OutputFrom(_)
OutputFrom(st) == IF st.pc = "done" THEN st.output ELSE OutputFrom(GenerateImplStep(st))

AloneOutput(inp) == OutputFrom(EnterGenerateImpl(inp))

C15_NoInterference ==
    /\ pc = "done" => output = AloneOutput(input)
    /\ other.pc = "done" => other.output = AloneOutput(other.input)

\* both invocations done: the first ended in two diagnostics of its own, the
\* second emitted a snippet
C15_Witness ==
    /\ pc = "done" /\ other.pc = "done"
    /\ output.kind = "compile_errors"
    /\ Len(output.errors) = 2
    /\ other.output.kind = "impl"
    /\ Len(other.output.body) = 1

(***************************************************************************)
(* C16 - With the struct-level annotation                                   *)
(* apply_overrides(infer_keys, prefix = "iproyal"), the unannotated fields  *)
(* iproyal_token and iproyal_timeout result in the keys "iproyal.token" and *)
(* "iproyal.timeout".                                                       *)
(***************************************************************************)
DocKeys == <<<<"i", "p", "r", "o", "y", "a", "l", ".", "t", "o", "k", "e", "n">>,
             <<"i", "p", "r", "o", "y", "a", "l", ".", "t", "i", "m", "e", "o", "u", "t">>>>

C16_DocExampleKeys ==
    (input = DocExample /\ pc = "done") =>
        /\ output.kind = "impl"
        /\ [k \in 1..Len(output.body) |-> output.body[k].key] = DocKeys

(***************************************************************************)
(* C17 - The strategy merger is a total function of the field outcome and   *)
(* the struct defaults: Explicit(k) gives the explicit key k;               *)
(* InferRequest(p) gives an inferred key under p if p is present, else      *)
(* under the struct prefix; Absent gives an inferred key under the struct   *)
(* prefix when struct inference is on and no strategy when it is off;       *)
(* Malformed gives no strategy whatever the struct inference flag.          *)
(***************************************************************************)
\* What the field annotation parser made of field f
FieldOutcome(f) == ParseFieldOverrideMeta(DecidingAttr(f), <<>>).meta

\* The strategy the table of the claim gives: no strategy is None
StrategyTable(m, si, sp) ==
    IF m.tag = "Explicit" THEN Some([tag |-> "Explicit", lit |-> m.lit, prefix |-> None])
    ELSE IF m.tag = "Infer"
    THEN Some([tag |-> "Inferred", lit |-> <<>>,
               prefix |-> IF IsSome(m.prefix) THEN m.prefix ELSE sp])
    ELSE IF m.tag = "None" /\ si
    THEN Some([tag |-> "Inferred", lit |-> <<>>, prefix |-> sp])
    ELSE None

C17_StrategyMerger ==
    \A f \in ProcessedFields :
        LET m == FieldOutcome(f)
            want == StrategyTable(m, infer_keys, prefix)
            sn == SnippetsOf(f.ident)
        IN /\ m.tag \in {"Explicit", "Infer", "None", "Invalid"}
           /\ MergeWithStructDefaults(m, infer_keys, prefix) = want
           /\ IF want = None THEN sn = {}
              ELSE /\ Cardinality(sn) = 1
                   /\ \A k \in sn :
                         IF Unwrap(want).tag = "Explicit"
                         THEN generated[k].key = Unwrap(want).lit
                         ELSE IsInferredKey(generated[k].key, Unwrap(want).prefix, f.ident)

\* a malformed annotation under struct inference with a prefix: no snippet
C17_Witness ==
    \E f \in ProcessedFields :
        /\ FieldOutcome(f).tag = "Invalid"
        /\ infer_keys /\ prefix = Some(<<"p">>)
        /\ SnippetsOf(f.ident) = {}

(***************************************************************************)
(* C18 - In an apply_overrides(...) block every token that is neither the   *)
(* inference flag nor prefix = "<string>" yields a diagnostic, and every    *)
(* recognized token takes effect wherever it stands relative to the         *)
(* unrecognized ones: an unrecognized token followed by the inference flag  *)
(* gives inference enabled plus one diagnostic, two unrecognized tokens     *)
(* give two diagnostics.                                                    *)
(***************************************************************************)
RecognizedStructToken(t) ==
    \/ t.path = "infer_keys" /\ t.value = NoValue
    \/ t.path = "prefix" /\ t.value \notin {NoValue, NonStrValue}

\* The (block, token) positions of the tokens of the apply_overrides lists
StructTokenPositions(inp) ==
    {<<b, k>> \in (1..Len(inp.attrs)) \X (1..2) :
        /\ inp.attrs[b].path = "apply_overrides"
        /\ inp.attrs[b].meta = "List"
        /\ k <= Len(inp.attrs[b].tokens)}

StructTokenAt(inp, p) == inp.attrs[p[1]].tokens[p[2]]

\* Every apply_overrides attribute of the declaration is a parenthesized list
OnlyStructLists(inp) ==
    \A a \in Range(inp.attrs) : a.path = "apply_overrides" => a.meta = "List"

C18_EveryStructTokenHandled ==
    (pc = "parsing" /\ attr_i = Len(input.attrs) /\ OnlyStructLists(input)) =>
        LET ps == StructTokenPositions(input)
            prefixes == {p \in ps : /\ RecognizedStructToken(StructTokenAt(input, p))
                                    /\ StructTokenAt(input, p).path = "prefix"}
        IN /\ Len(errors) =
                 Cardinality({p \in ps : ~RecognizedStructToken(StructTokenAt(input, p))})
           /\ infer_keys = (\E p \in ps : /\ RecognizedStructToken(StructTokenAt(input, p))
                                          /\ StructTokenAt(input, p).path = "infer_keys")
           /\ IsSome(prefix) = (prefixes # {})

(***************************************************************************)
(* C19 - Struct-level diagnostics never abort the pipeline: on a named      *)
(* struct, after the struct-level parser has returned diagnostics, every    *)
(* field is still parsed, in declaration order, its diagnostics appended    *)
(* to the same accumulator after the struct-level ones; and when the        *)
(* struct-level block yields nothing usable the defaults are inference      *)
(* disabled and prefix absent.                                              *)
(***************************************************************************)
\* No token of an apply_overrides block is the inference flag or a prefix
NothingUsable(inp) ==
    \A a \in Range(inp.attrs) :
        a.path = "apply_overrides" => \A t \in Range(a.tokens) : ~RecognizedStructToken(t)

C19_StructDiagnosticsDoNotAbort ==
    IsNamedStruct(input) =>
        /\ pc \in {"deciding", "done"} => field_i = Len(input.fields)
        /\ \A k \in 1..Len(errors) : errors[k].span.i <= field_i
        /\ \A k \in 1..(Len(errors) - 1) : errors[k].span.i <= errors[k + 1].span.i
        /\ \A j \in 1..field_i :
              FieldOutcome(input.fields[j]).tag = "Invalid"
                  => \E k \in 1..Len(errors) : errors[k].span.i = j
        /\ (attr_i = Len(input.attrs) /\ \E a \in Range(input.attrs) : MalformedStructAttr(a))
              => (errors # <<>> /\ errors[1].span.i = 0)
        /\ NothingUsable(input) => (infer_keys = FALSE /\ prefix = None)

\* a struct-level diagnostic, then both fields parsed: the second one's
\* diagnostic recorded after it, the first one's snippet generated
C19_Witness ==
    /\ pc = "done" /\ IsNamedStruct(input)
    /\ NothingUsable(input)
    /\ Len(input.fields) = 2
    /\ Len(errors) >= 2
    /\ errors[1].span.i = 0
    /\ errors[Len(errors)].span.i = 2
    /\ generated # <<>>

(***************************************************************************)
(* C20 - The parenthesized field form override_key(...) walks each token:   *)
(* the inference flag sets the bit wherever it appears, prefix = "<string>" *)
(* sets the local prefix, any other token yields a diagnostic; the outcome  *)
(* is InferRequest exactly when the list contains an inference-flag token,  *)
(* so both (infer, x) and (x, infer) give InferRequest with one diagnostic, *)
(* for x.                                                                   *)
(***************************************************************************)
InferFlagToken(t) == t.path = "infer" /\ t.value = NoValue

\* A parenthesized list of path tokens in which infer, if present, is the
\* bare flag
IsTokenList(a) ==
    /\ a.meta = "List"
    /\ \A t \in Range(a.tokens) :
          /\ IsPathToken(t)
          /\ t.path = "infer" => t.value = NoValue

\* The diagnostics recorded for field j
DiagnosticsOfField(j) == {k \in 1..Len(errors) : errors[k].span.i = j}

C20_InferRequestIffInferToken ==
    \A j \in 1..field_i :
        LET f == input.fields[j] IN
        (IsSome(DecidingAttr(f)) /\ IsTokenList(Unwrap(DecidingAttr(f)))) =>
            LET a == Unwrap(DecidingAttr(f))
                flagged == \E t \in Range(a.tokens) : InferFlagToken(t)
                others == {t \in 1..Len(a.tokens) : ~GoodFieldToken(a.tokens[t])}
            IN /\ (FieldOutcome(f).tag = "Infer") = flagged
               /\ flagged => Cardinality(DiagnosticsOfField(j)) = Cardinality(others)

(***************************************************************************)
(* C21 - The inference flag is mandatory: a parenthesized field annotation  *)
(* whose token walk never saw the flag (override_key(prefix = "netnut"))    *)
(* records a missing-flag diagnostic and yields Malformed, so the field     *)
(* gets no strategy even when struct-level inference is enabled.            *)
(***************************************************************************)
\* The token walk over the list of a reaches an infer token: every token
\* before it is accepted
WalkSawInfer(a) ==
    \E t \in 1..Len(a.tokens) :
        /\ a.tokens[t].path = "infer"
        /\ \A u \in 1..(t - 1) : GoodFieldToken(a.tokens[u])

\* Field f is decided by a parenthesized annotation that is handed to the
\* token walk
HasWalkedList(f) ==
    /\ IsSome(DecidingAttr(f))
    /\ Unwrap(DecidingAttr(f)).meta = "List"
    /\ ~StartsWithQuote(Unwrap(DecidingAttr(f)))

C21_InferFlagMandatory ==
    \A j \in 1..field_i :
        LET f == input.fields[j] IN
        (HasWalkedList(f) /\ ~WalkSawInfer(Unwrap(DecidingAttr(f)))) =>
            /\ FieldOutcome(f).tag = "Invalid"
            /\ SnippetsOf(f.ident) = {}
            /\ Cardinality({k \in DiagnosticsOfField(j) :
                               errors[k].msg = "missing infer keyword"}) = 1

\* override_key(prefix = "q") under struct-level inference: one diagnostic,
\* no snippet
C21_Witness ==
    /\ infer_keys
    /\ \E j \in 1..field_i :
          /\ HasWalkedList(input.fields[j])
          /\ Unwrap(DecidingAttr(input.fields[j])).tokens = <<Tok("prefix", StrValue(<<"q">>))>>
          /\ Cardinality(DiagnosticsOfField(j)) = 1
          /\ SnippetsOf(input.fields[j].ident) = {}

DiagnosticSeqOfField(j) == SelectSeq(errors, LAMBDA e : e.span.i = j)

C23_NoCrossFieldState ==
    IsNamedStruct(input) =>
        \A j \in 1..field_i :
            LET f == input.fields[j]
                alone == ProcessField(f, infer_keys, prefix, <<>>)
            IN /\ DiagnosticSeqOfField(j) = alone.errors
               /\ IF IsSome(alone.code)
                  THEN /\ Cardinality(SnippetsOf(f.ident)) = 1
                       /\ \A k \in SnippetsOf(f.ident) : generated[k] = Unwrap(alone.code)
                  ELSE SnippetsOf(f.ident) = {}

\* the first field left a diagnostic in the accumulator, the second one got
\* its snippet all the same
C23_Witness ==
    /\ IsNamedStruct(input)
    /\ field_i = 2
    /\ DiagnosticSeqOfField(1) # <<>>
    /\ DiagnosticSeqOfField(2) = <<>>
    /\ SnippetsOf(input.fields[2].ident) # {}

(***************************************************************************)
(* C24 - Orchestrator progress: every compilation ends in Done.  On a       *)
(* struct with named fields the stages come in the order Parsing, Merging,  *)
(* Deciding, Done; Merging takes the fields one at a time in declaration    *)
(* order, each exactly once; and the emit-or-diagnose decision is taken     *)
(* only after the last field has been processed, whatever diagnostics the   *)
(* fields recorded.                                                         *)
(***************************************************************************)
\* The diagnostics of field j in the accumulator errs, in order
DiagnosticsIn(errs, j) == SelectSeq(errs, LAMBDA e : e.span.i = j)

\* The stage changes of one step of generate_impl
StageChanges ==
    IF IsNamedStruct(input)
    THEN {<<"parsing", "merging">>, <<"merging", "deciding">>, <<"deciding", "done">>}
    ELSE {<<"parsing", "done">>}

\* What one step may do to the stage, the field counter and the output
OrderedStep ==
    /\ pc' # pc => <<pc, pc'>> \in StageChanges
    /\ field_i' # field_i =>
          /\ pc = "merging" /\ pc' = "merging"
          /\ field_i' = field_i + 1
          /\ field_i' <= Len(input.fields)
          /\ DiagnosticsIn(errors', field_i') =
                ProcessField(input.fields[field_i'], infer_keys, prefix, <<>>).errors
    /\ pc' = "deciding" => field_i' = Len(input.fields)
    /\ (output' # output /\ IsNamedStruct(input)) =>
          (pc = "deciding" /\ field_i = Len(input.fields))
    /\ input' = input

C24_OrchestratorProgress ==
    /\ <>(pc = "done")
    /\ [][OrderedStep]_vars

\* the first of two fields recorded a diagnostic and the second was still
\* processed before the decision
C24_Witness ==
    /\ pc = "done" /\ IsNamedStruct(input)
    /\ field_i = 2
    /\ DiagnosticSeqOfField(1) # <<>>
    /\ SnippetsOf(input.fields[2].ident) # {}
    /\ output.kind = "compile_errors"

(***************************************************************************)
(* C25 - Duplicate keys are not rejected and the last one applied wins:     *)
(* when two participating fields synthesize the same key no diagnostic is   *)
(* recorded, both set_override calls are emitted in declaration order, and  *)
(* after a successful run the value held under the key is that of the       *)
(* later-declared field that made a call.                                   *)
(***************************************************************************)
\* The participating fields whose key is that of field j
SameKeyFields(j) ==
    {m \in 1..Len(input.fields) :
        /\ Participates(input.fields[m])
        /\ SynthesizedKey(input.fields[m]) = SynthesizedKey(input.fields[j])}

\* The positions in q of the entries whose key is key
UnderKey(q, key) == {k \in 1..Len(q) : q[k].key = key}

C25_DuplicateKeysLastWins ==
    (pc \in {"done", "returned"} /\ output.kind = "impl") =>
        \A j \in 1..Len(input.fields) :
            (Participates(input.fields[j]) /\ Cardinality(SameKeyFields(j)) >= 2) =>
                LET key == SynthesizedKey(input.fields[j])
                    js == SameKeyFields(j)
                    callers == {m \in js : CallsOfField(m) # <<>>}
                    mine == SelectSeq(calls, LAMBDA c : c[1] = key)
                IN /\ errors = <<>>
                   /\ Cardinality(UnderKey(output.body, key)) = Cardinality(js)
                   /\ \A k1, k2 \in UnderKey(output.body, key) :
                         k1 < k2 =>
                            \E m1, m2 \in js :
                                /\ m1 < m2
                                /\ output.body[k1].ident = input.fields[m1].ident
                                /\ output.body[k2].ident = input.fields[m2].ident
                   /\ (pc = "returned" /\ ret.tag = "Ok") =>
                         /\ Len(mine) = Cardinality(callers)
                         /\ callers # {} =>
                               LET last == CHOOSE m \in callers : \A n \in callers : n <= m
                               IN /\ mine[Len(mine)] = CallsOfField(last)[1]
                                  /\ ret.builder[key] = CallsOfField(last)[1][2]

\* two fields under the key k, both made their call with different values;
\* the builder holds the second field's value
C25_Witness ==
    /\ pc = "returned" /\ ret.tag = "Ok"
    /\ Len(input.fields) = 2
    /\ SameKeyFields(1) = {1, 2}
    /\ Len(calls) = 2
    /\ calls[1][2] # calls[2][2]
    /\ ret.builder[calls[2][1]] = self_values[2]

(***************************************************************************)
(* C26 - A diagnostic implies exclusion at field level: whenever parsing a  *)
(* field's annotation records a diagnostic, the field's outcome is          *)
(* Malformed and no snippet is built for it (in particular for              *)
(* (infer, <unrecognized token>) and (infer, prefix = <non-string>));       *)
(* conversely a field whose outcome is Explicit, InferRequest or Absent     *)
(* recorded no diagnostic.                                                  *)
(***************************************************************************)
C26_DiagnosticImpliesExclusion ==
    \A j \in 1..field_i :
        LET f == input.fields[j] IN
        /\ DiagnosticsOfField(j) # {} =>
              (FieldOutcome(f).tag = "Invalid" /\ SnippetsOf(f.ident) = {})
        /\ FieldOutcome(f).tag \in {"Explicit", "Infer", "None"} =>
              DiagnosticsOfField(j) = {}

(***************************************************************************)
(* C27 - An inferred key never begins with a dot: for every field           *)
(* identifier (also one that starts with an underscore) and every effective *)
(* prefix (absent, empty or non-empty) the key synthesized for an inferred  *)
(* strategy does not start with ".".                                        *)
(***************************************************************************)
C27_NoLeadingDot ==
    \A f \in ProcessedFields :
        IsInferredField(f) =>
            \A k \in SnippetsOf(f.ident) :
                /\ generated[k].key # <<>>
                /\ generated[k].key[1] # "."

(***************************************************************************)
(* C28 - Only the first override_key annotation of a field counts: the      *)
(* field's outcome, snippet and diagnostics are those of the first one in   *)
(* source order alone; later override_key annotations on the field are      *)
(* neither parsed nor diagnosed, also when they are malformed.              *)
(***************************************************************************)
\* The positions of the override_key annotations of field f
OverrideKeyPositions(f) == {k \in 1..Len(f.attrs) : f.attrs[k].path = "override_key"}

FirstOverrideKeyPosition(f) ==
    CHOOSE k \in OverrideKeyPositions(f) : \A m \in OverrideKeyPositions(f) : k <= m

\* Field f without what follows its first override_key annotation
UpToFirstAnnotation(f) ==
    [f EXCEPT !.attrs = SubSeq(f.attrs, 1, FirstOverrideKeyPosition(f))]

StructBlockPositions(inp) ==
    {b \in 1..Len(inp.attrs) : inp.attrs[b].path = "apply_overrides"}

\* The token at position p is reached by the scan of its block: every token
\* before it in the block is recognized
Scanned(inp, p) ==
    \A u \in 1..(p[2] - 1) : RecognizedStructToken(inp.attrs[p[1]].tokens[u])

\* The positions of the prefix tokens that are scanned and set the prefix
ScannedPrefixes(inp) ==
    {p \in StructTokenPositions(inp) :
        /\ Scanned(inp, p)
        /\ RecognizedStructToken(StructTokenAt(inp, p))
        /\ StructTokenAt(inp, p).path = "prefix"}

\* Position p is not before position q in source order
NotBefore(p, q) == p[1] > q[1] \/ (p[1] = q[1] /\ p[2] >= q[2])

C29_BlocksAccumulate ==
    (/\ pc = "parsing" /\ attr_i = Len(input.attrs)
     /\ OnlyStructLists(input)
     /\ Cardinality(StructBlockPositions(input)) >= 2) =>
        LET ps == StructTokenPositions(input)
            failing == {b \in StructBlockPositions(input) :
                           MalformedStructAttr(input.attrs[b])}
        IN /\ infer_keys = (\E p \in ps : /\ RecognizedStructToken(StructTokenAt(input, p))
                                          /\ StructTokenAt(input, p).path = "infer_keys")
           /\ IF ScannedPrefixes(input) = {} THEN prefix = None
              ELSE LET last == CHOOSE p \in ScannedPrefixes(input) :
                                   \A q \in ScannedPrefixes(input) : NotBefore(p, q)
                   IN prefix = Some(Unwrap(Unwrap(StructTokenAt(input, last).value)))
           /\ Len(errors) = Cardinality(failing)
           /\ {errors[k].span.j : k \in 1..Len(errors)} = failing
           /\ \A k \in 1..(Len(errors) - 1) : errors[k].span.j < errors[k + 1].span.j

(***************************************************************************)
(* C30 - The combined error of get_all does not depend on the completion    *)
(* order: for every interleaving and completion order of the four fetches   *)
(* the errors of the returned Err stand in the fixed order geo_nodes,       *)
(* region_codes, zip_codes, isp_codes, and the result (Ok with the four     *)
(* datasets, or Err with that list) depends on the four outcomes only.      *)
(***************************************************************************)
\* The failed fetches in the order get_all lists them
FailedInOrder == SelectSeq(FetchOrder, LAMBDA op : outcome[op].tag = "Err")

\* The result the four outcomes determine
ResultOfOutcomes ==
    IF FailedInOrder # <<>>
    THEN [tag |-> "Err",
          errors |-> [k \in 1..Len(FailedInOrder) |->
                         InfaticaQueryError(FailedInOrder[k], outcome[FailedInOrder[k]].err)],
          results |-> <<>>]
    ELSE [tag |-> "Ok", errors |-> <<>>,
          results |-> [k \in 1..Len(FetchOrder) |-> outcome[FetchOrder[k]].val]]

C30_OrderIndependentResult ==
    pc = "got_all" => ga_ret = ResultOfOutcomes

\* the fetches completed in the reverse of the listed order, the first and
\* the last listed failed, and the error of the first listed comes first
C30_Witness ==
    /\ pc = "got_all"
    /\ finished = <<"IspCodes", "ZipCodes", "RegionCodes", "GeoNodes">>
    /\ FailedFetches = {"GeoNodes", "IspCodes"}
    /\ Len(ga_ret.errors) = 2
    /\ ga_ret.errors[1].variant = "GeoNodes"
    /\ ga_ret.errors[2].variant = "IspCodes"

====
